---- MODULE Spec2Model ----
(***************************************************************************)
(* DormHelper persistence layer (src/database.py): schema initialisation,  *)
(* legacy column adaptation, seeding and the CRUD helpers, as a state      *)
(* machine over one SQLite store.                                          *)
(*                                                                         *)
(* Encoding of SQL values.  TEXT columns hold strings; SQL NULL (Python    *)
(* None) in a TEXT column is the marker NULL.  The three timestamp columns *)
(* (created_at, created_date, updated_at) hold integers: the clock value   *)
(* written by _now_iso(), whose fixed-width ISO text sorts as the instant  *)
(* does; NullTs is SQL NULL and EmptyTs the empty string, which SQLite     *)
(* orders NULL < '' < any non-empty text.  Integer reference columns       *)
(* (parent_id, student_id) use NullId for SQL NULL; real ids start at 1.   *)
(* A table is a sequence of rows in rowid order; a row is a function from  *)
(* the table's column names to values.                                     *)
(***************************************************************************)
EXTENDS Integers, Sequences, FiniteSets, TLC

\* cols: the columns of each table; seq: sqlite_sequence; news .. neighbors: the
\* rows; now: the clock.  init records how the latest init_db call ended
\* ("never" before the first) and last what the latest call returned; used is
\* the set of ids the requests table has held so far.
VARIABLES cols, seq, news, requests, handbook, students, neighbors, now, init, last,
          used

vars == <<cols, seq, news, requests, handbook, students, neighbors, now, init, last,
          used>>

\* ------------------------------------------------------------------ bounds
MaxTime == 3
MaxRequests == 2
MaxHandbook == 3
MaxStudents == 2
MaxNeighbors == 2

\* ------------------------------------------------------- value encoding
NULL == "<NULL>"
NullTs == 0 - 1
EmptyTs == 0
NullId == 0

IsBlank(v) == v = NULL \/ v = ""
IsBlankTs(t) == t = NullTs \/ t = EmptyTs

Tables == {"news", "requests", "handbook", "students", "neighbors"}

TsColumns == {"created_at", "created_date", "updated_at"}

\* ----------------------------------------------------------- the schema
\* Columns of each CREATE TABLE IF NOT EXISTS statement of init_db.
NewsCols == {"id", "title", "content", "created_at"}
RequestsCols == {"id", "requester_name", "request_type", "description", "room",
                 "status", "created_at", "updated_at"}
HandbookCols == {"id", "parent_id", "title", "content", "sort_order"}
StudentsCols == {"id", "full_name", "room", "floor", "created_at"}
NeighborsCols == {"id", "student_id", "name", "contact"}

CurrentCols == [t \in Tables |->
    CASE t = "news" -> NewsCols
      [] t = "requests" -> RequestsCols
      [] t = "handbook" -> HandbookCols
      [] t = "students" -> StudentsCols
      [] t = "neighbors" -> NeighborsCols]

\* The store as one value: the column set of every table (empty = the table
\* does not exist), sqlite_sequence (every table is AUTOINCREMENT) and the rows.
DB == [cols |-> cols, seq |-> seq, news |-> news, requests |-> requests,
       handbook |-> handbook, students |-> students, neighbors |-> neighbors]

RowsOf(d, t) ==
    CASE t = "news" -> d.news
      [] t = "requests" -> d.requests
      [] t = "handbook" -> d.handbook
      [] t = "students" -> d.students
      [] t = "neighbors" -> d.neighbors

WithRows(d, t, rs) ==
    CASE t = "news" -> [d EXCEPT !.news = rs]
      [] t = "requests" -> [d EXCEPT !.requests = rs]
      [] t = "handbook" -> [d EXCEPT !.handbook = rs]
      [] t = "students" -> [d EXCEPT !.students = rs]
      [] t = "neighbors" -> [d EXCEPT !.neighbors = rs]

MaxOf(a, b) == IF a >= b THEN a ELSE b

LastId(rs) == IF Len(rs) = 0 THEN 0 ELSE rs[Len(rs)]["id"]

\* Variant of NextId for a rowid that is not AUTOINCREMENT: one more than the
\* largest id present.
NextIdOfPresent(d, t) == LastId(RowsOf(d, t)) + 1

\* The rowid an INSERT gets: INTEGER PRIMARY KEY AUTOINCREMENT takes one more
\* than the largest rowid the table has ever held.
NextId(d, t) == MaxOf(d.seq[t], LastId(RowsOf(d, t))) + 1

\* INSERT of one row: the row gets the next rowid and sqlite_sequence follows.
InsertRow(d, t, r) ==
    LET id == NextId(d, t)
        row == [c \in d.cols[t] |-> IF c = "id" THEN id ELSE r[c]]
    IN [WithRows(d, t, Append(RowsOf(d, t), row)) EXCEPT !.seq[t] = id]

\* ------------------------------------------------------------- init_db
\* CREATE TABLE IF NOT EXISTS: an absent table is created with the current
\* columns, an existing one is left as it is.
CreateTables(d) ==
    [d EXCEPT !.cols = [t \in Tables |->
        IF d.cols[t] = {} THEN CurrentCols[t] ELSE d.cols[t]]]

\* CREATE INDEX IF NOT EXISTS idx_requests_status ON requests(status) and
\* idx_students_room ON students(room): SQLite raises "no such column" when
\* the indexed column is missing, and nothing in init_db catches it.
CreateIndexesOk(d) ==
    /\ "status" \in d.cols["requests"]
    /\ "room" \in d.cols["students"]

\* ALTER TABLE t ADD COLUMN c <definition>: every existing row reads the
\* column's default.
AddColumn(d, t, c, def) ==
    LET rs == RowsOf(d, t)
        d1 == WithRows(d, t, [i \in DOMAIN rs |-> (c :> def) @@ rs[i]])
    IN [d1 EXCEPT !.cols[t] = @ \cup {c}]

\* The expected-column checklist, in the order of the try block.
Checklist == <<
    [table |-> "handbook", column |-> "parent_id", def |-> NullId],
    [table |-> "handbook", column |-> "sort_order", def |-> 0],
    [table |-> "requests", column |-> "created_at", def |-> NullTs],
    [table |-> "requests", column |-> "updated_at", def |-> NullTs],
    [table |-> "requests", column |-> "status", def |-> "open"],
    [table |-> "news", column |-> "created_at", def |-> NullTs],
    [table |-> "students", column |-> "created_at", def |-> NullTs] >>

NoFail == 0
FailPoints == 1..Len(Checklist)

\* The try block around the seven ensure_column calls, from step i on.  fail
\* names the step whose ALTER TABLE raises when it is executed (NoFail: none);
\* the single except clause ends the block at the first exception.
RECURSIVE EnsureColumns(_, _, _)
EnsureColumns(d, i, fail) ==
    IF i > Len(Checklist) THEN d
    ELSE LET s == Checklist[i] IN
         IF s.column \in d.cols[s.table] THEN EnsureColumns(d, i + 1, fail)
         ELSE IF i = fail THEN d
         ELSE EnsureColumns(AddColumn(d, s.table, s.column, s.def), i + 1, fail)

\* Variant of CopyText that overwrites a target that already holds a value.
CopyTextOverwriting(d, from, to) ==
    LET rs == d.requests IN
    [d EXCEPT !.requests = [i \in DOMAIN rs |-> [rs[i] EXCEPT ![to] = rs[i][from]]]]

\* UPDATE requests SET request_type = type WHERE request_type IS NULL OR
\* request_type = ''  (and the same statement for requester_name).
CopyText(d, from, to) ==
    LET rs == d.requests IN
    [d EXCEPT !.requests = [i \in DOMAIN rs |->
        IF IsBlank(rs[i][to]) THEN [rs[i] EXCEPT ![to] = rs[i][from]] ELSE rs[i]]]

\* UPDATE requests SET created_at = created_date WHERE (created_at IS NULL OR
\* created_at = '') AND created_date IS NOT NULL
CopyCreatedDate(d) ==
    LET rs == d.requests IN
    [d EXCEPT !.requests = [i \in DOMAIN rs |->
        IF IsBlankTs(rs[i]["created_at"]) /\ rs[i]["created_date"] # NullTs
        THEN [rs[i] EXCEPT !["created_at"] = rs[i]["created_date"]] ELSE rs[i]]]

\* The backfill try block of init_db.
Backfill(d) ==
    LET d1 == IF "requester_name" \notin d.cols["requests"]
              THEN AddColumn(d, "requests", "requester_name", NULL) ELSE d
        d2 == IF "request_type" \notin d1.cols["requests"]
              THEN AddColumn(d1, "requests", "request_type", NULL) ELSE d1
        existing == d2.cols["requests"]
        d3 == IF "type" \in existing THEN CopyText(d2, "type", "request_type") ELSE d2
        d4 == IF "student_name" \in existing
              THEN CopyText(d3, "student_name", "requester_name") ELSE d3
    IN IF "created_date" \in existing /\ "created_at" \in existing
       THEN CopyCreatedDate(d4) ELSE d4

\* The three sample announcements (titles and contents abbreviated).
Samples == <<
    [title |-> "Welcome to DormHelper", content |-> "welcome text"],
    [title |-> "Cleaning schedule", content |-> "cleaning text"],
    [title |-> "Planned water shutdown", content |-> "water text"] >>

RECURSIVE InsertSamples(_, _, _)
InsertSamples(d, i, t) ==
    IF i > Len(Samples) THEN d
    ELSE InsertSamples(
           InsertRow(d, "news", [title |-> Samples[i].title,
                                 content |-> Samples[i].content,
                                 created_at |-> t]),
           i + 1, t)

\* The seed try block: SELECT COUNT(*) FROM news; when 0, the three INSERTs.
\* An INSERT naming a column the table lacks raises, which the block swallows.
Seed(d, t) ==
    IF Len(d.news) = 0
    THEN IF {"title", "content", "created_at"} \subseteq d.cols["news"]
         THEN InsertSamples(d, 1, t) ELSE d
    ELSE d

\* init_db as a function of the store: the store it leaves and how it ends.
InitDbResult(d, t, fail) ==
    LET d1 == CreateTables(d) IN
    IF ~CreateIndexesOk(d1) THEN [db |-> d1, outcome |-> "raised"]
    ELSE [db |-> Seed(Backfill(EnsureColumns(d1, 1, fail)), t), outcome |-> "ok"]

SetDB(d) ==
    /\ cols' = d.cols
    /\ seq' = d.seq
    /\ news' = d.news
    /\ requests' = d.requests
    /\ handbook' = d.handbook
    /\ students' = d.students
    /\ neighbors' = d.neighbors

\* The last call and what it gave back: how it ended ("ok" or "raised"), the
\* integer it returned (an id or a count), the boolean it returned, the rows it
\* returned and the arguments it was called with.
NoArg == [none |-> 0]
NoResult == [op |-> "none", outcome |-> "none", ret |-> 0, flag |-> FALSE,
             rows |-> <<>>, arg |-> NoArg]

InitDbOp(fail) ==
    LET r == InitDbResult(DB, now, fail) IN
    /\ SetDB(r.db)
    /\ init' = r.outcome
    /\ last' = [NoResult EXCEPT !.op = "init_db", !.outcome = r.outcome,
                                 !.arg = [fail |-> fail]]
    /\ UNCHANGED <<now, used>>

InitDb == InitDbOp(NoFail)

\* init_db with one ALTER TABLE of the checklist raising.
InitDbFailing == \E f \in FailPoints : InitDbOp(f)

\* The clock read by _now_iso() advances between calls.
Tick ==
    /\ now < MaxTime
    /\ now' = now + 1
    /\ UNCHANGED <<cols, seq, news, requests, handbook, students, neighbors, init, last, used>>

\* --------------------------------------------------------------- requests
\* Arguments the presentation layer passes (request_type comes from a combo box,
\* the optional fields arrive as None when left blank).
Names == {NULL, "Ivan"}
RequestTypes == {"plumbing"}
Descriptions == {"leak"}
Rooms == {"204"}
Statuses == {"closed"}
Limits == {1, MaxRequests}
RequestIds == 1..MaxRequests

\* The columns add_request knows how to fill, and the value each one gets.
Fillable == {"requester_name", "student_name", "request_type", "type",
             "description", "room", "status", "created_at", "created_date"}

\* Variant of FillValue that stores the room in place of the description.
FillValueSwapped(c, a, t) ==
    CASE c \in {"requester_name", "student_name"} -> a.requester_name
      [] c \in {"request_type", "type"} -> a.request_type
      [] c = "description" -> a.room
      [] c = "room" -> a.room
      [] c = "status" -> "open"
      [] c \in {"created_at", "created_date"} -> t

FillValue(c, a, t) ==
    CASE c \in {"requester_name", "student_name"} -> a.requester_name
      [] c \in {"request_type", "type"} -> a.request_type
      [] c = "description" -> a.description
      [] c = "room" -> a.room
      [] c = "status" -> "open"
      [] c \in {"created_at", "created_date"} -> t

\* A column the INSERT does not name reads NULL.
Unfilled(c) == IF c \in TsColumns THEN NullTs ELSE NULL

\* Variant of FilledCols that fills the old name of a pair only when the new
\* name is absent.
FilledColsNewFirst(existing) ==
    LET f == existing \cap Fillable IN
    f \ ((IF "requester_name" \in f THEN {"student_name"} ELSE {})
         \cup (IF "request_type" \in f THEN {"type"} ELSE {})
         \cup (IF "created_at" \in f THEN {"created_date"} ELSE {}))

\* cols of add_request: the columns of the table it finds and fills.
FilledCols(existing) == existing \cap Fillable

\* Variant of AddRequestResult that inserts without looking whether any
\* column was found to fill.
AddRequestResultUnguarded(d, a, t) ==
    LET existing == d.cols["requests"]
        filled == FilledCols(existing)
        r == [c \in existing \ {"id"} |->
                IF c \in filled THEN FillValue(c, a, t) ELSE Unfilled(c)]
    IN [db |-> InsertRow(d, "requests", r), outcome |-> "ok",
        ret |-> NextId(d, "requests")]

AddRequestResult(d, a, t) ==
    LET existing == d.cols["requests"]
        filled == FilledCols(existing)
    IN IF filled = {} THEN [db |-> d, outcome |-> "raised", ret |-> 0]
       ELSE LET r == [c \in existing \ {"id"} |->
                        IF c \in filled THEN FillValue(c, a, t) ELSE Unfilled(c)]
            IN [db |-> InsertRow(d, "requests", r), outcome |-> "ok",
                ret |-> NextId(d, "requests")]

AddRequest(name, type, desc, room) ==
    LET a == [requester_name |-> name, request_type |-> type,
              description |-> desc, room |-> room]
        r == AddRequestResult(DB, a, now)
    IN /\ Len(requests) < MaxRequests
       /\ NextId(DB, "requests") <= MaxRequests
       /\ SetDB(r.db)
       /\ last' = [NoResult EXCEPT !.op = "add_request", !.outcome = r.outcome,
                                   !.ret = r.ret, !.arg = a]
       /\ used' = IF r.outcome = "ok" THEN used \cup {r.ret} ELSE used
       /\ UNCHANGED <<now, init>>

\* The orders ORDER BY created_at DESC may return the rows in: any order that
\* is non-increasing in created_at (SQL leaves the order of ties open).
Orderings(n) == {f \in [1..n -> 1..n] : \A i, j \in 1..n : f[i] = f[j] => i = j}

OrderedByCreatedAtDesc(rs) ==
    {[i \in 1..Len(rs) |-> rs[f[i]]] : f \in
        {g \in Orderings(Len(rs)) : \A i, j \in 1..Len(rs) :
            i < j => rs[g[i]]["created_at"] >= rs[g[j]]["created_at"]}}

Prefix(s, n) == IF n >= Len(s) THEN s ELSE SubSeq(s, 1, n)

\* get_requests(limit): raises when the table has no created_at column.
GetRequests(limit) ==
    /\ IF "created_at" \in cols["requests"]
       THEN \E s \in OrderedByCreatedAtDesc(requests) :
              last' = [NoResult EXCEPT !.op = "get_requests", !.outcome = "ok",
                                      !.rows = Prefix(s, limit),
                                      !.arg = [limit |-> limit]]
       ELSE last' = [NoResult EXCEPT !.op = "get_requests", !.outcome = "raised",
                                    !.arg = [limit |-> limit]]
    /\ UNCHANGED <<cols, seq, news, requests, handbook, students, neighbors, now, init, used>>

\* clear_requests: SELECT COUNT(*), DELETE FROM requests; sqlite_sequence stays.
ClearRequests ==
    /\ IF cols["requests"] = {}
       THEN /\ last' = [NoResult EXCEPT !.op = "clear_requests", !.outcome = "raised"]
            /\ UNCHANGED <<requests, seq>>
       ELSE /\ last' = [NoResult EXCEPT !.op = "clear_requests", !.outcome = "ok",
                                        !.ret = Len(requests)]
            /\ requests' = <<>>
            /\ seq' = [seq EXCEPT !["requests"] = MaxOf(@, LastId(requests))]
    /\ UNCHANGED <<cols, news, handbook, students, neighbors, now, init, used>>

\* update_request_status(request_id, status): UPDATE requests SET status = ?,
\* updated_at = ? WHERE id = ?; raises when the table lacks one of the columns.
UpdateRequestStatusRows(rs, id, status, t) ==
    [i \in DOMAIN rs |->
        IF rs[i]["id"] = id
        THEN [rs[i] EXCEPT !["status"] = status, !["updated_at"] = t]
        ELSE rs[i]]

UpdateRequestStatus(id, status) ==
    LET a == [request_id |-> id, status |-> status] IN
    /\ IF {"id", "status", "updated_at"} \subseteq cols["requests"]
       THEN /\ requests' = UpdateRequestStatusRows(requests, id, status, now)
            /\ last' = [NoResult EXCEPT !.op = "update_request_status",
                           !.outcome = "ok", !.arg = a,
                           !.flag = (\E i \in DOMAIN requests : requests[i]["id"] = id)]
       ELSE /\ last' = [NoResult EXCEPT !.op = "update_request_status",
                           !.outcome = "raised", !.arg = a]
            /\ UNCHANGED requests
    /\ UNCHANGED <<cols, seq, news, handbook, students, neighbors, now, init, used>>

\* --------------------------------------------------------------- handbook
Titles == {"A", "B"}
SortOrders == {0, 1, 2}
ParentIds == {NullId, 1, 2}

\* add_handbook_item: INSERT INTO handbook (parent_id, title, content,
\* sort_order); raises when the table lacks one of the four columns.  No
\* connection enables foreign keys, so parent_id is stored as given.
AddHandbookItem(title, parent_id, sort_order) ==
    LET a == [title |-> title, parent_id |-> parent_id, sort_order |-> sort_order]
        ok == {"parent_id", "title", "content", "sort_order"} \subseteq cols["handbook"]
        d == InsertRow(DB, "handbook", [title |-> title, content |-> "",
                                        parent_id |-> parent_id,
                                        sort_order |-> sort_order])
    IN /\ Len(handbook) < MaxHandbook
       /\ NextId(DB, "handbook") <= MaxHandbook
       /\ IF ok
          THEN /\ SetDB(d)
               /\ last' = [NoResult EXCEPT !.op = "add_handbook_item",
                              !.outcome = "ok", !.ret = NextId(DB, "handbook"),
                              !.arg = a]
          ELSE /\ last' = [NoResult EXCEPT !.op = "add_handbook_item",
                              !.outcome = "raised", !.arg = a]
               /\ UNCHANGED <<cols, seq, news, requests, handbook, students, neighbors>>
       /\ UNCHANGED <<now, init, used>>

\* Variant of DeleteHandbookItem that applies the ON DELETE SET NULL of
\* parent_id: the children of a removed row become roots.
DeleteHandbookItemSetNull(title) ==
    LET Keep(r) == r["title"] # title
        a == [title |-> title]
        gone == {handbook[i]["id"] : i \in {j \in DOMAIN handbook : ~Keep(handbook[j])}}
        kept == SelectSeq(handbook, Keep)
    IN /\ IF "title" \in cols["handbook"]
          THEN /\ handbook' = [i \in DOMAIN kept |->
                                 IF "parent_id" \in DOMAIN kept[i]
                                    /\ kept[i]["parent_id"] \in gone
                                 THEN [kept[i] EXCEPT !["parent_id"] = NullId]
                                 ELSE kept[i]]
               /\ seq' = [seq EXCEPT !["handbook"] = MaxOf(@, LastId(handbook))]
               /\ last' = [NoResult EXCEPT !.op = "delete_handbook_item",
                              !.outcome = "ok", !.arg = a,
                              !.ret = Len(handbook) - Len(kept)]
          ELSE /\ last' = [NoResult EXCEPT !.op = "delete_handbook_item",
                              !.outcome = "raised", !.arg = a]
               /\ UNCHANGED <<handbook, seq>>
       /\ UNCHANGED <<cols, news, requests, students, neighbors, now, init, used>>

\* delete_handbook_item: DELETE FROM handbook WHERE title = ?; returns rowcount.
DeleteHandbookItem(title) ==
    LET Keep(r) == r["title"] # title
        a == [title |-> title]
    IN /\ IF "title" \in cols["handbook"]
          THEN /\ handbook' = SelectSeq(handbook, Keep)
               /\ seq' = [seq EXCEPT !["handbook"] = MaxOf(@, LastId(handbook))]
               /\ last' = [NoResult EXCEPT !.op = "delete_handbook_item",
                              !.outcome = "ok", !.arg = a,
                              !.ret = Len(handbook) - Len(SelectSeq(handbook, Keep))]
          ELSE /\ last' = [NoResult EXCEPT !.op = "delete_handbook_item",
                              !.outcome = "raised", !.arg = a]
               /\ UNCHANGED <<handbook, seq>>
       /\ UNCHANGED <<cols, news, requests, students, neighbors, now, init, used>>

\* Variant of HandbookBefore that orders by id alone.
HandbookBeforeById(a, b) == a["id"] < b["id"]

\* ORDER BY sort_order, id
HandbookBefore(a, b) ==
    \/ a["sort_order"] < b["sort_order"]
    \/ a["sort_order"] = b["sort_order"] /\ a["id"] < b["id"]

\* The rows of a set in ORDER BY order: the first row, then the rest.
RECURSIVE OrderRows(_)
OrderRows(rs) ==
    IF rs = {} THEN <<>>
    ELSE LET first == CHOOSE r \in rs : \A o \in rs \ {r} : HandbookBefore(r, o)
         IN <<first>> \o OrderRows(rs \ {first})

\* WHERE parent_id IS NULL for None, WHERE parent_id = ? otherwise.
HandbookChildrenRows(rs, parent_id) ==
    OrderRows({rs[i] : i \in {j \in DOMAIN rs : rs[j]["parent_id"] = parent_id}})

\* get_handbook_children: raises when the table lacks parent_id or sort_order.
GetHandbookChildren(parent_id) ==
    LET a == [parent_id |-> parent_id] IN
    /\ IF {"parent_id", "sort_order"} \subseteq cols["handbook"]
       THEN last' = [NoResult EXCEPT !.op = "get_handbook_children",
                        !.outcome = "ok", !.arg = a,
                        !.rows = HandbookChildrenRows(handbook, parent_id)]
       ELSE last' = [NoResult EXCEPT !.op = "get_handbook_children",
                        !.outcome = "raised", !.arg = a]
    /\ UNCHANGED <<cols, seq, news, requests, handbook, students, neighbors, now, init, used>>

\* ------------------------------------------------- students and neighbors
FullNames == {"Ivan", "Olga"}
StudentRooms == {"204"}
Floors == {NULL, "2"}
NeighborNames == {"Petr"}
StudentIds == 1..MaxStudents

\* add_student: INSERT INTO students (full_name, room, floor, created_at).
AddStudent(full_name, room, floor) ==
    LET a == [full_name |-> full_name, room |-> room, floor |-> floor]
        ok == {"full_name", "room", "floor", "created_at"} \subseteq cols["students"]
        d == InsertRow(DB, "students", [full_name |-> full_name, room |-> room,
                                        floor |-> floor, created_at |-> now])
    IN /\ Len(students) < MaxStudents
       /\ NextId(DB, "students") <= MaxStudents
       /\ IF ok
          THEN /\ SetDB(d)
               /\ last' = [NoResult EXCEPT !.op = "add_student", !.outcome = "ok",
                              !.ret = NextId(DB, "students"), !.arg = a]
          ELSE /\ last' = [NoResult EXCEPT !.op = "add_student",
                              !.outcome = "raised", !.arg = a]
               /\ UNCHANGED <<cols, seq, news, requests, handbook, students, neighbors>>
       /\ UNCHANGED <<now, init, used>>

\* add_neighbor: INSERT INTO neighbors (student_id, name, contact).  get_conn
\* never issues PRAGMA foreign_keys = ON, so SQLite does not enforce the
\* REFERENCES students(id) clause and the row is stored whatever student_id is.
AddNeighbor(student_id, name) ==
    LET a == [student_id |-> student_id, name |-> name]
        ok == {"student_id", "name", "contact"} \subseteq cols["neighbors"]
        d == InsertRow(DB, "neighbors", [student_id |-> student_id, name |-> name,
                                         contact |-> NULL])
    IN /\ Len(neighbors) < MaxNeighbors
       /\ IF ok
          THEN /\ SetDB(d)
               /\ last' = [NoResult EXCEPT !.op = "add_neighbor", !.outcome = "ok",
                              !.ret = NextId(DB, "neighbors"), !.arg = a]
          ELSE /\ last' = [NoResult EXCEPT !.op = "add_neighbor",
                              !.outcome = "raised", !.arg = a]
               /\ UNCHANGED <<cols, seq, news, requests, handbook, students, neighbors>>
       /\ UNCHANGED <<now, init, used>>

\* get_neighbors: SELECT * FROM neighbors WHERE student_id = ?
GetNeighbors(student_id) ==
    LET a == [student_id |-> student_id]
        Mine(r) == r["student_id"] = student_id
    IN /\ IF "student_id" \in cols["neighbors"]
          THEN last' = [NoResult EXCEPT !.op = "get_neighbors", !.outcome = "ok",
                           !.arg = a, !.rows = SelectSeq(neighbors, Mine)]
          ELSE last' = [NoResult EXCEPT !.op = "get_neighbors",
                           !.outcome = "raised", !.arg = a]
       /\ UNCHANGED <<cols, seq, news, requests, handbook, students, neighbors, now, init, used>>

\* get_conn: sqlite3.connect and row_factory only.  No PRAGMA foreign_keys = ON
\* is issued on any connection, and SQLite leaves foreign keys off by default.
ForeignKeysEnforced == FALSE

\* neighbors.student_id REFERENCES students(id) ON DELETE CASCADE: the rows the
\* deletion of student student_id leaves in neighbors.
NeighborsAfterDelete(rs, student_id) ==
    LET Others(r) == r["student_id"] # student_id IN
    IF ForeignKeysEnforced THEN SelectSeq(rs, Others) ELSE rs

\* A student row is deleted on a connection of get_conn: DELETE FROM students
\* WHERE id = ?.  The module has no function for it; the statement is the
\* deletion the neighbors table declares its ON DELETE clause for.
DeleteStudent(student_id) ==
    LET a == [student_id |-> student_id]
        Keep(r) == r["id"] # student_id
    IN /\ \E i \in DOMAIN students : students[i]["id"] = student_id
       /\ students' = SelectSeq(students, Keep)
       /\ neighbors' = IF "student_id" \in cols["neighbors"]
                       THEN NeighborsAfterDelete(neighbors, student_id)
                       ELSE neighbors
       /\ seq' = [seq EXCEPT !["students"] = MaxOf(@, LastId(students))]
       /\ last' = [NoResult EXCEPT !.op = "delete_student", !.outcome = "ok",
                                   !.ret = 1, !.arg = a]
       /\ UNCHANGED <<cols, news, requests, handbook, now, init, used>>

\* ------------------------------------------------------ confirming info
\* The text of a line edit, as a sequence of tokens: a token is a blank or a
\* word.  The inputs below hold at most one word.
Blank == " "
NoWidget == <<NULL>>
InputNames == {<<"Ivan">>, <<Blank, "Ivan", Blank>>, <<"Olga">>, <<Blank>>}
InputRooms == {<<"204">>, <<"204", Blank>>, <<"305">>, <<>>}
InputFloors == {<<"2", Blank>>, NoWidget}

\* str.strip(): the text without its leading and trailing blanks.
RECURSIVE StripLeft(_)
StripLeft(s) == IF s # <<>> /\ Head(s) = Blank THEN StripLeft(Tail(s)) ELSE s

RECURSIVE StripRight(_)
StripRight(s) ==
    IF s # <<>> /\ s[Len(s)] = Blank THEN StripRight(SubSeq(s, 1, Len(s) - 1)) ELSE s

Strip(s) == StripRight(StripLeft(s))

\* The string a stripped one-word text is: "" when nothing is left.
Text(s) == IF s = <<>> THEN "" ELSE s[1]

\* floor.text().strip() if floor is not None else None
FloorText(f) == IF f = NoWidget THEN NULL ELSE Text(Strip(f))

\* Variant of StudentMatches that compares the name alone.
StudentMatchesNameOnly(r, full_name, room) == r["full_name"] = full_name

\* WHERE full_name = ? AND room = ?
StudentMatches(r, full_name, room) ==
    r["full_name"] = full_name /\ r["room"] = room

\* get_student_by_name_room: the rows LIMIT 1 may return (SQL leaves open which
\* of several matching rows comes first); none when the set is empty.
GetStudentByNameRoom(rs, full_name, room) ==
    {rs[i] : i \in {j \in DOMAIN rs : StudentMatches(rs[j], full_name, room)}}

\* update_student: UPDATE students SET full_name = ?, room = ?, floor = ?
\* WHERE id = ?
UpdateStudentRows(rs, student_id, full_name, room, floor) ==
    [i \in DOMAIN rs |->
        IF rs[i]["id"] = student_id
        THEN [rs[i] EXCEPT !["full_name"] = full_name, !["room"] = room,
                           !["floor"] = floor]
        ELSE rs[i]]

\* on_confirm_info_clicked: strip the fields, refuse an empty name or room,
\* look the student up by (full_name, room), then update_student on the row
\* found or add_student when there is none.  An exception of a helper is
\* caught and shown; the store is then as it was.
ConfirmInfo(name, room, floor) ==
    LET full_name == Text(Strip(name))
        room_text == Text(Strip(room))
        floor_text == FloorText(floor)
        a == [full_name |-> full_name, room |-> room_text, floor |-> floor_text]
        found == GetStudentByNameRoom(students, full_name, room_text)
        d == InsertRow(DB, "students", [full_name |-> full_name, room |-> room_text,
                                        floor |-> floor_text, created_at |-> now])
        Done(outcome, id) == [NoResult EXCEPT !.op = "confirm_info",
                                 !.outcome = outcome, !.ret = id, !.arg = a]
    IN /\ IF full_name = "" \/ room_text = ""
          THEN /\ last' = Done("incomplete", 0)
               /\ UNCHANGED <<cols, seq, news, requests, handbook, students, neighbors>>
          ELSE IF ~({"full_name", "room"} \subseteq cols["students"])
          THEN /\ last' = Done("raised", 0)
               /\ UNCHANGED <<cols, seq, news, requests, handbook, students, neighbors>>
          ELSE IF found # {}
          THEN \E existing \in found :
                 IF {"id", "floor"} \subseteq cols["students"]
                 THEN /\ students' = UpdateStudentRows(students, existing["id"],
                                                       full_name, room_text, floor_text)
                      /\ last' = [Done("updated", existing["id"]) EXCEPT !.flag = TRUE]
                      /\ UNCHANGED <<cols, seq, news, requests, handbook, neighbors>>
                 ELSE /\ last' = Done("raised", 0)
                      /\ UNCHANGED <<cols, seq, news, requests, handbook, students,
                                     neighbors>>
          ELSE /\ Len(students) < MaxStudents
               /\ NextId(DB, "students") <= MaxStudents
               /\ IF {"floor", "created_at"} \subseteq cols["students"]
                  THEN /\ SetDB(d)
                       /\ last' = Done("added", NextId(DB, "students"))
                  ELSE /\ last' = Done("raised", 0)
                       /\ UNCHANGED <<cols, seq, news, requests, handbook, students,
                                      neighbors>>
       /\ UNCHANGED <<now, init, used>>

\* ------------------------------------------------------- starting stores
\* A store the program starts on is either absent (no table exists), or was
\* left by an earlier revision of the program and holds one request.  The columns init_db itself
\* treats as possibly missing or possibly present on such a store are the
\* optional ones; the others are common to every revision.
RequestsBase == {"id", "description", "room"}
RequestsOptional == {"requester_name", "student_name", "request_type", "type",
                     "created_at", "created_date", "status", "updated_at"}
RequestsColSets == {RequestsBase \cup s : s \in SUBSET RequestsOptional}

LegacyCols == [t \in Tables |->
    CASE t = "news" -> {"id", "title", "content"}
      [] t = "requests" -> RequestsBase
      [] t = "handbook" -> {"id", "title", "content"}
      [] t = "students" -> {"id", "full_name", "room", "floor"}
      [] t = "neighbors" -> {}]

\* Values an earlier revision may have left in a requests row, per column.
LegacyTime == 1
LegacyValues == [c \in RequestsBase \cup RequestsOptional |->
    CASE c = "id" -> {1}
      [] c \in {"description", "room"} -> {NULL}
      [] c = "status" -> {"open"}
      [] c = "updated_at" -> {NullTs}
      [] c \in {"created_at", "created_date"} -> {NullTs, EmptyTs, LegacyTime}
      [] c \in {"requester_name", "request_type"} -> {NULL, "", "new"}
      [] c \in {"student_name", "type"} -> {NULL, "", "old"}]

\* One populated row per store in the plain specification.
TypicalValues == [c \in RequestsBase \cup RequestsOptional |->
    CASE c \in {"created_at", "created_date"} -> {LegacyTime}
      [] c \in {"requester_name", "request_type"} -> {NULL}
      [] c \in {"student_name", "type"} -> {"old"}
      [] OTHER -> LegacyValues[c]]

\* Every row over the columns cs with each value drawn from values[c].
RECURSIVE RowsOver(_, _)
RowsOver(cs, values) ==
    IF cs = {} THEN {<<>>}
    ELSE LET c == CHOOSE x \in cs : TRUE IN
         {(c :> v) @@ r : v \in values[c], r \in RowsOver(cs \ {c}, values)}

NoSeq == [t \in Tables |-> 0]

InitEmptyStore ==
    /\ cols = [t \in Tables |-> {}]
    /\ seq = NoSeq
    /\ requests = <<>>

InitExistingStore(values) ==
    /\ \E rc \in RequestsColSets :
         /\ cols = [(IF rc = RequestsCols THEN CurrentCols ELSE LegacyCols)
                      EXCEPT !["requests"] = rc]
         /\ requests \in {<<r>> : r \in RowsOver(rc, values)}
         /\ seq = [NoSeq EXCEPT !["requests"] = 1]

InitRest ==
    /\ news = <<>>
    /\ handbook = <<>>
    /\ students = <<>>
    /\ neighbors = <<>>
    /\ now = LegacyTime + 1
    /\ init = "never"
    /\ last = NoResult
    /\ used = {requests[i]["id"] : i \in DOMAIN requests}

\* A requests table that has none of the columns add_request knows: the store
\* its "No compatible columns found" guard is written for.
IncompatibleCols == {"id", "note"}

InitIncompatibleStore ==
    /\ cols = [LegacyCols EXCEPT !["requests"] = IncompatibleCols]
    /\ requests = << [id |-> 1, note |-> NULL] >>
    /\ seq = [NoSeq EXCEPT !["requests"] = 1]

Init ==
    /\ \/ InitEmptyStore
       \/ InitExistingStore(TypicalValues)
       \/ InitIncompatibleStore
    /\ InitRest

Next ==
    \/ InitDb
    \/ \E n \in Names, ty \in RequestTypes, de \in Descriptions, ro \in Rooms :
         AddRequest(n, ty, de, ro)
    \/ \E l \in Limits : GetRequests(l)
    \/ \E id \in RequestIds, st \in Statuses : UpdateRequestStatus(id, st)
    \/ ClearRequests
    \/ Tick

Spec == Init /\ [][Next]_vars

\* The migration alone, over every combination of values a legacy row holds.
InitMigrate ==
    /\ InitEmptyStore \/ InitExistingStore(LegacyValues)
    /\ InitRest

NextMigrate == InitDb \/ Tick

SpecMigrate == InitMigrate /\ [][NextMigrate]_vars

\* The migration with one ALTER TABLE of the checklist raising.
NextFailing == InitDbFailing \/ InitDb \/ Tick

SpecFailing == Init /\ [][NextFailing]_vars

\* The handbook: a store that is absent, legacy or current, with at most one
\* node left by an earlier run.
AbsentCols == [t \in Tables |-> {}]
MigratableCols == [LegacyCols EXCEPT !["requests"] = RequestsCols]

InitOtherStore ==
    /\ cols \in {AbsentCols, MigratableCols, CurrentCols}
    /\ requests = <<>>
    /\ news = <<>>
    /\ students = <<>>
    /\ neighbors = <<>>
    /\ now = LegacyTime + 1
    /\ init = "never"
    /\ last = NoResult
    /\ used = {requests[i]["id"] : i \in DOMAIN requests}

InitHandbook ==
    /\ InitOtherStore
    /\ \/ handbook = <<>> /\ seq = NoSeq
       \/ /\ cols # AbsentCols
          /\ handbook = << [c \in cols["handbook"] |->
                CASE c = "id" -> 1
                  [] c = "title" -> "A"
                  [] c = "content" -> ""
                  [] c = "parent_id" -> NullId
                  [] c = "sort_order" -> 0] >>
          /\ seq = [NoSeq EXCEPT !["handbook"] = 1]

NextHandbook ==
    \/ InitDb
    \/ \E ti \in Titles, pa \in ParentIds, so \in SortOrders : AddHandbookItem(ti, pa, so)
    \/ \E ti \in Titles : DeleteHandbookItem(ti)
    \/ \E pa \in ParentIds : GetHandbookChildren(pa)

SpecHandbook == InitHandbook /\ [][NextHandbook]_vars

InitStudents ==
    /\ InitOtherStore
    /\ handbook = <<>>
    /\ seq = NoSeq

NextStudents ==
    \/ InitDb
    \/ \E fn \in FullNames, ro \in StudentRooms, fl \in Floors : AddStudent(fn, ro, fl)
    \/ \E si \in StudentIds, na \in NeighborNames : AddNeighbor(si, na)
    \/ \E si \in StudentIds : GetNeighbors(si)
    \/ \E si \in StudentIds : DeleteStudent(si)
    \/ Tick

SpecStudents == InitStudents /\ [][NextStudents]_vars

\* The student form alone, confirmed again and again from a store with no
\* student.
NextUpsert ==
    \/ InitDb
    \/ \E na \in InputNames, ro \in InputRooms, fl \in InputFloors : ConfirmInfo(na, ro, fl)
    \/ Tick

SpecUpsert == InitStudents /\ [][NextUpsert]_vars

\* ------------------------------------------------------------ properties
Value(r, c, absent) == IF c \in DOMAIN r THEN r[c] ELSE absent

NewestRequest == requests[Len(requests)]

SampleTitles == {Samples[i].title : i \in DOMAIN Samples}

\* C1: init_db is idempotent (a call that follows a call changes neither the
\* column set of any table nor the News rows), and on every starting store
\* with an empty News table a call inserts exactly the 3 sample announcements.
C1_InitIdempotentAndSeedsOnce ==
    [][InitDb =>
        /\ (last.op = "init_db" => cols' = cols /\ news' = news)
        /\ (Len(news) = 0 =>
               /\ Len(news') = 3
               /\ {news'[i]["title"] : i \in DOMAIN news'} = SampleTitles)
        /\ (Len(news) > 0 => Len(news') = Len(news))]_vars

\* C2: when the column-add of one checklist step fails, every other step's
\* column is still added, the backfill still adds its columns, the seed still
\* runs and init_db returns normally.
C2_ChecklistContinuesAfterFailure ==
    [][\A f \in FailPoints :
        (/\ InitDbOp(f)
         /\ CreateIndexesOk(CreateTables(DB))
         /\ Checklist[f].column \notin CreateTables(DB).cols[Checklist[f].table])
        => /\ \A i \in DOMAIN Checklist :
                i # f => Checklist[i].column \in cols'[Checklist[i].table]
           /\ {"requester_name", "request_type"} \subseteq cols'["requests"]
           /\ ("created_at" \in cols'["news"] => Len(news') > 0)
           /\ init' = "ok"]_vars

\* C3 as stated: after the backfill every row's new column holds the legacy
\* value when the new one was null or empty, and its previous value otherwise
\* (type -> request_type, student_name -> requester_name, created_date ->
\* created_at); a second run changes no row.
BackfillTextLaw(r, rp, from, to) ==
    from \in DOMAIN r =>
        rp[to] = (IF IsBlank(Value(r, to, NULL)) THEN r[from] ELSE r[to])

C3_BackfillLawAsStated ==
    [][(InitDb /\ init' = "ok") =>
        /\ Len(requests') = Len(requests)
        /\ \A i \in DOMAIN requests :
             LET r == requests[i]
                 rp == requests'[i]
             IN /\ BackfillTextLaw(r, rp, "type", "request_type")
                /\ BackfillTextLaw(r, rp, "student_name", "requester_name")
                /\ "created_date" \in DOMAIN r =>
                     rp["created_at"] =
                        (IF IsBlankTs(Value(r, "created_at", NullTs))
                         THEN r["created_date"] ELSE r["created_at"])
        /\ (last.op = "init_db" => requests' = requests)]_vars

\* C3 (amended): as stated for type -> request_type and student_name ->
\* requester_name; created_at takes the value of created_date only when
\* created_at was null or empty and created_date is not null, and keeps its
\* previous value otherwise; a second run changes no row.
C3_BackfillLaw ==
    [][(InitDb /\ init' = "ok") =>
        /\ Len(requests') = Len(requests)
        /\ \A i \in DOMAIN requests :
             LET r == requests[i]
                 rp == requests'[i]
                 before == Value(r, "created_at", NullTs)
             IN /\ BackfillTextLaw(r, rp, "type", "request_type")
                /\ BackfillTextLaw(r, rp, "student_name", "requester_name")
                /\ "created_date" \in DOMAIN r =>
                     rp["created_at"] =
                        (IF IsBlankTs(before) /\ r["created_date"] # NullTs
                         THEN r["created_date"] ELSE before)
        /\ (last.op = "init_db" => requests' = requests)]_vars

C3_Witness ==
    /\ last.op = "init_db"
    /\ init = "ok"
    /\ \E i \in DOMAIN requests :
         /\ {"type", "student_name", "created_date"} \subseteq DOMAIN requests[i]
         /\ requests[i]["type"] = "old"
         /\ requests[i]["request_type"] = "old"
         /\ requests[i]["requester_name"] = "new"
         /\ requests[i]["created_date"] = LegacyTime
         /\ requests[i]["created_at"] = LegacyTime

\* C4: the row add_request inserts holds the submitted value in every column
\* of the old/new pairs that the table has: requester_name and student_name
\* the name, request_type and type the type, created_at and created_date the
\* instant of the call.
C4_DualPopulation ==
    [][\A n \in Names, ty \in RequestTypes, de \in Descriptions, ro \in Rooms :
        (AddRequest(n, ty, de, ro) /\ last'.outcome = "ok") =>
          LET r == requests'[Len(requests')] IN
          /\ Len(requests') = Len(requests) + 1
          /\ DOMAIN r = cols["requests"]
          /\ \A c \in DOMAIN r \cap {"requester_name", "student_name"} : r[c] = n
          /\ \A c \in DOMAIN r \cap {"request_type", "type"} : r[c] = ty
          /\ \A c \in DOMAIN r \cap {"created_at", "created_date"} : r[c] = now]_vars

C4_Witness ==
    /\ last.op = "add_request"
    /\ last.outcome = "ok"
    /\ init = "never"
    /\ cols["requests"] \cap RequestsOptional =
         {"requester_name", "student_name", "type", "created_date"}
    /\ NewestRequest["id"] = last.ret
    /\ NewestRequest["requester_name"] = "Ivan"
    /\ NewestRequest["student_name"] = "Ivan"
    /\ NewestRequest["type"] = "plumbing"
    /\ NewestRequest["created_date"] = now

\* C5: on a store init_db has completed on, get_requests with a limit of at
\* least the number of stored requests, called after add_request, returns a
\* row with the returned id, the submitted requester_name, request_type,
\* description and room, status 'open' and a null updated_at.
C5_RequestRoundTrip ==
    [][\A l \in Limits :
        (/\ GetRequests(l)
         /\ init = "ok"
         /\ last.op = "add_request"
         /\ last.outcome = "ok"
         /\ l >= Len(requests))
        => /\ last'.outcome = "ok"
           /\ \E i \in DOMAIN last'.rows :
                LET r == last'.rows[i] IN
                /\ r["id"] = last.ret
                /\ r["requester_name"] = last.arg.requester_name
                /\ r["request_type"] = last.arg.request_type
                /\ r["description"] = last.arg.description
                /\ r["room"] = last.arg.room
                /\ r["status"] = "open"
                /\ r["updated_at"] = NullTs]_vars

C5_Witness ==
    /\ last.op = "get_requests"
    /\ last.outcome = "ok"
    /\ init = "ok"
    /\ Len(last.rows) = 2
    /\ Len(requests) = 2
    /\ \E i \in DOMAIN last.rows :
         /\ last.rows[i]["id"] = 2
         /\ last.rows[i]["requester_name"] = "Ivan"
         /\ last.rows[i]["request_type"] = "plumbing"
         /\ last.rows[i]["description"] = "leak"
         /\ last.rows[i]["room"] = "204"
         /\ last.rows[i]["status"] = "open"
         /\ last.rows[i]["updated_at"] = NullTs

\* C6: once init_db has been called, update_request_status(id, status) on an
\* id that exists returns true, sets that row's status and sets its updated_at
\* to a non-null timestamp >= its created_at, and changes no other row; on an
\* id that does not exist it returns false and changes no row.
C6_UpdateStatus ==
    [][\A id \in RequestIds, st \in Statuses :
        (UpdateRequestStatus(id, st) /\ init # "never") =>
          /\ last'.outcome = "ok"
          /\ Len(requests') = Len(requests)
          /\ last'.flag = (\E i \in DOMAIN requests : requests[i]["id"] = id)
          /\ \A i \in DOMAIN requests :
               IF requests[i]["id"] = id
               THEN /\ requests'[i]["status"] = st
                    /\ requests'[i]["updated_at"] # NullTs
                    /\ requests'[i]["updated_at"] >= requests[i]["created_at"]
               ELSE requests'[i] = requests[i]]_vars

\* C7: once init_db has been called, every row of the requests table has a
\* status, and it is neither null nor the empty string.
C7_StatusNeverEmpty ==
    init # "never" =>
        \A i \in DOMAIN requests :
            /\ "status" \in DOMAIN requests[i]
            /\ ~IsBlank(requests[i]["status"])

\* The node with the given id is reached from row r by following parent_id
\* at most k times.
RECURSIVE ReachesId(_, _, _)
ReachesId(r, id, k) ==
    /\ k > 0
    /\ r["parent_id"] # NullId
    /\ \/ r["parent_id"] = id
       \/ \E j \in DOMAIN handbook :
            /\ handbook[j]["id"] = r["parent_id"]
            /\ ReachesId(handbook[j], id, k - 1)

\* C8: the parent_id references of the handbook table are acyclic: no node is
\* its own ancestor, and no node has its own id as parent_id.
C8_HandbookAcyclic ==
    "parent_id" \in cols["handbook"] =>
        \A i \in DOMAIN handbook :
            ~ReachesId(handbook[i], handbook[i]["id"], Len(handbook))

C10_NeighborNeedsStudent ==
    [][\A si \in StudentIds, na \in NeighborNames :
        (/\ AddNeighbor(si, na)
         /\ init = "ok"
         /\ \A i \in DOMAIN students : students[i]["id"] # si)
        => /\ last'.outcome = "raised"
           /\ neighbors' = neighbors
           /\ \A j \in DOMAIN neighbors' : \E i \in DOMAIN students' :
                students'[i]["id"] = neighbors'[j]["student_id"]]_vars

\* C11: when a student row is deleted, every neighbors row referencing it is
\* removed with it, so get_neighbors on the deleted id returns no row.
C11_CascadeDelete ==
    [][\A si \in StudentIds :
        DeleteStudent(si) =>
            LET Mine(r) == r["student_id"] = si IN
            /\ \A j \in DOMAIN neighbors' : neighbors'[j]["student_id"] # si
            /\ SelectSeq(neighbors', Mine) = <<>>]_vars

\* The positions of the students rows holding the pair (full_name, room).
RowsOfPair(rs, full_name, room) ==
    {i \in DOMAIN rs : rs[i]["full_name"] = full_name /\ rs[i]["room"] = room}

\* C12: confirming the student form with a non-empty name and room on a
\* students table of the current schema updates the floor of the row holding
\* exactly that (full_name, room) and inserts nothing when such a row exists,
\* and otherwise inserts exactly one new row; confirmed again and again from an
\* empty students table, the table holds at most one row per (full_name, room).
C12_StudentUpsert ==
    [][(last'.op = "confirm_info" /\ StudentsCols \subseteq cols["students"]) =>
       \A na \in {x \in InputNames : Text(Strip(x)) = last'.arg.full_name},
          ro \in {x \in InputRooms : Text(Strip(x)) = last'.arg.room},
          fl \in {x \in InputFloors : FloorText(x) = last'.arg.floor} :
        (/\ Text(Strip(na)) # ""
         /\ Text(Strip(ro)) # ""
         /\ ConfirmInfo(na, ro, fl))
        => LET fn == Text(Strip(na))
               rt == Text(Strip(ro))
               ft == FloorText(fl)
               held == RowsOfPair(students, fn, rt)
           IN /\ IF held # {}
                 THEN /\ last'.outcome = "updated"
                      /\ \E i \in held :
                           students' = [students EXCEPT ![i]["floor"] = ft]
                 ELSE /\ last'.outcome = "added"
                      /\ Len(students') = Len(students) + 1
                      /\ SubSeq(students', 1, Len(students)) = students
                      /\ students'[Len(students')]["full_name"] = fn
                      /\ students'[Len(students')]["room"] = rt
                      /\ students'[Len(students')]["floor"] = ft
                      /\ \A i \in DOMAIN students :
                           students'[Len(students')]["id"] # students[i]["id"]
              /\ \A i, j \in DOMAIN students' :
                   (/\ students'[i]["full_name"] = students'[j]["full_name"]
                    /\ students'[i]["room"] = students'[j]["room"]) => i = j]_vars

\* The form was confirmed for Ivan in room 204 three times over, with padded
\* text and another floor, and once for Ivan in room 305: two rows, the first
\* updated in place.
C12_Witness ==
    /\ last.op = "confirm_info"
    /\ last.outcome = "updated"
    /\ last.ret = 1
    /\ Len(students) = 2
    /\ students[1]["full_name"] = "Ivan" /\ students[1]["room"] = "204"
    /\ students[1]["floor"] = "2"
    /\ students[1]["created_at"] < now
    /\ students[2]["full_name"] = "Ivan" /\ students[2]["room"] = "305"
    /\ students[2]["floor"] = NULL

\* C13: add_request on a requests table that exposes none of the columns it
\* can fill (or on a store with no requests table) ends with its compatibility
\* error, the only error add_request raises itself, and leaves the store as it
\* was: no row is added and no id is used up.
C13_IncompatibleTable ==
    [][\A n \in Names, ty \in RequestTypes, de \in Descriptions, ro \in Rooms :
        (/\ cols["requests"] \cap Fillable = {}
         /\ AddRequest(n, ty, de, ro))
        => /\ last'.op = "add_request"
           /\ last'.outcome = "raised"
           /\ requests' = requests
           /\ cols' = cols
           /\ seq' = seq]_vars

C13_Witness ==
    /\ last.op = "add_request"
    /\ last.outcome = "raised"
    /\ cols["requests"] = IncompatibleCols
    /\ requests = << [id |-> 1, note |-> NULL] >>
    /\ seq["requests"] = 1

\* The rows of a table, as a set.
RowSet(rs) == {rs[i] : i \in DOMAIN rs}

\* C14: delete_handbook_item(title) removes exactly the rows with that title
\* and returns how many they were; nothing cascades: a remaining row whose
\* parent was removed stays as it was, parent_id included, so it names an
\* absent id and is returned neither among the roots nor among the children of
\* any node that exists.
C14_DeleteNoCascade ==
    [][\A ti \in Titles :
        (/\ "title" \in cols["handbook"]
         /\ DeleteHandbookItem(ti))
        => LET removed == {i \in DOMAIN handbook : handbook[i]["title"] = ti}
               removedIds == {handbook[i]["id"] : i \in removed}
               orphans == {handbook[i] : i \in
                             {j \in DOMAIN handbook \ removed :
                                handbook[j]["parent_id"] \in removedIds}}
           IN /\ last'.outcome = "ok"
              /\ last'.ret = Cardinality(removed)
              /\ Len(handbook') = Len(handbook) - Cardinality(removed)
              /\ RowSet(handbook') = {handbook[i] : i \in DOMAIN handbook \ removed}
              /\ \A i, j \in DOMAIN handbook' :
                   i < j => handbook'[i]["id"] < handbook'[j]["id"]
              /\ {"parent_id", "sort_order"} \subseteq cols["handbook"] =>
                   \A o \in orphans :
                     /\ o \in RowSet(handbook')
                     /\ \A k \in DOMAIN handbook' : handbook'[k]["id"] # o["parent_id"]
                     /\ o \notin RowSet(HandbookChildrenRows(handbook', NullId))
                     /\ \A k \in DOMAIN handbook' :
                          o \notin RowSet(HandbookChildrenRows(handbook',
                                                               handbook'[k]["id"]))]_vars

\* Node 1 ("A") was deleted while node 2 ("B") was its child: B is still
\* there and still names parent 1.
C14_Witness ==
    /\ last.op = "delete_handbook_item"
    /\ last.outcome = "ok"
    /\ last.ret = 1
    /\ last.arg.title = "A"
    /\ seq["handbook"] = 2
    /\ Len(handbook) = 1
    /\ handbook[1]["id"] = 2
    /\ handbook[1]["title"] = "B"
    /\ handbook[1]["parent_id"] = 1

\* C15: on a store whose requests table is the one init_db creates, over any
\* interleaving of add_request and clear_requests: add_request returns an id
\* greater than every id the table has held, so the ids it returns are
\* strictly increasing and an id used before a clear is never handed out
\* again; clear_requests returns the number of rows there were and leaves the
\* table empty.
C15_IdsNeverReused ==
    [][cols["requests"] = RequestsCols =>
        /\ \A n \in Names, ty \in RequestTypes, de \in Descriptions, ro \in Rooms :
             AddRequest(n, ty, de, ro) =>
               /\ last'.outcome = "ok"
               /\ \A id \in used : last'.ret > id
               /\ \A i \in DOMAIN requests : last'.ret > requests[i]["id"]
               /\ requests'[Len(requests')]["id"] = last'.ret
               /\ SubSeq(requests', 1, Len(requests)) = requests
        /\ ClearRequests =>
               /\ last'.outcome = "ok"
               /\ last'.ret = Len(requests)
               /\ requests' = <<>>]_vars

\* add_request after a clear: id 1 was used and cleared away, the table holds
\* only the new row, and its id is 2.
C15_Witness ==
    /\ cols["requests"] = RequestsCols
    /\ last.op = "add_request"
    /\ last.outcome = "ok"
    /\ last.ret = 2
    /\ used = {1, 2}
    /\ Len(requests) = 1
    /\ requests[1]["id"] = 2

====
